---- MODULE Spec2Model ----
(***************************************************************************)
(* A model of the voxel core of wgpu-renderer: Chunk (src/src/chunk.rs),   *)
(* the VoxelMesh face serializer (src/src/chunk.rs) and MeshBuilder        *)
(* (src/src/mesh.rs).                                                      *)
(*                                                                         *)
(* Conventions.                                                            *)
(*   Option<T>   None is <<>>, Some(v) is <<v>>.                           *)
(*   Block       a record [tag, id]; id is 0 unless tag = "Id".            *)
(*   f32         every float of the code is a multiple of 1/2 of small     *)
(*               magnitude, which f32 represents and adds exactly; the     *)
(*               model stores a float as the integer 2*value ("halves").   *)
(*   Chunk<L,H>  the const generics L and H are variables fixed by Init.   *)
(***************************************************************************)
EXTENDS Integers, Sequences, FiniteSets, TLC

VARIABLES
    L,          \* const generic L of Chunk<L, H>
    H,          \* const generic H of Chunk<L, H>
    chunk,      \* the Chunk: [blocks |-> [y -> [z -> [x -> Block]]]]
    nplaced,    \* number of place_block calls PlaceBlock has made on the chunk
    ret,        \* the last place_block call: [pos, block, res], res the Option<()> returned
    bref,       \* Option<BlockRef> held by the caller (index_block / neighbor result)
    path,       \* how bref was obtained: [origin, faces, from], see NoPath
    iter,       \* Option<ChunkIter> held by the caller (chunk.iter() result)
    yielded,    \* the BlockRefs iter.next() has returned since chunk.iter(), in order
    iter_ended, \* iter.next() has returned None
    voxel_mesh, \* the VoxelMesh: [faces, positions]
    mesh,       \* Option<Mesh> returned by the last VoxelMesh::mesh call
    builder,    \* a MeshBuilder: [vertices, indices, curr_idx, panicked]
    npushed,    \* number of MeshBuilder::push calls made on the builder
    pushes,     \* the (face, position) arguments of those calls, in order
    built,      \* Option<Mesh> returned by MeshBuilder::build, which consumes the builder
    tally,      \* a MeshBuilder on a long run of pushes, kept in summary: see TallyNew
    world,      \* the World: [chunks, scheduled_chunks, to_update_chunks]; NoWorld before World::new
    renderers,  \* ChunksRenderer::renderers: ChunkPos -> ChunkRenderer
    calls,      \* the calls the last MasterRenderer::prepare made on the ChunksRenderer
    draws,      \* the entries the last ChunksRenderer::render issued a draw call for
    rret,       \* the last call made on the ChunksRenderer directly: [op, pos, res]
    panic,      \* Option<message>: the panic that ended the program
    npasses,    \* number of MasterRenderer::prepare calls made
    ncalls,     \* number of calls made on the ChunksRenderer directly
    frame       \* the frame being drawn: [phase, camera, updated], see FrameNew

vars == <<L, H, chunk, nplaced, ret, bref, path, iter, yielded, iter_ended, voxel_mesh, mesh,
          builder, npushed, pushes, built, tally,
          world, renderers, calls, draws, rret, panic, npasses, ncalls, frame>>

chunkVars == <<L, H, chunk, nplaced, ret>>
refVars == <<bref, path>>
iterVars == <<iter, yielded, iter_ended>>
mesherVars == <<voxel_mesh, mesh>>
builderVars == <<builder, npushed, pushes, built, tally>>
rendererVars == <<world, renderers, calls, draws, rret, panic, npasses, ncalls, frame>>

(***************************************************************************)
(* Bounds of the model.                                                    *)
(***************************************************************************)
\* place_block calls explored on one chunk
MaxPlace == 1
\* MeshBuilder::push calls explored on one builder kept in full
MaxPushes == 2
\* MeshBuilder::push calls explored on one builder kept in summary: past the
\* 16384 quads whose vertices 16-bit indices can address
MaxLongPushes == 16386
\* const RD of World::new, 8 in the code: the world's chunks have x and z in
\* -RD..RD
RD == 1
\* MasterRenderer::prepare calls explored
MaxPasses == 2
\* Calls explored on the ChunksRenderer directly
MaxCalls == 2
\* Frames explored
MaxFrames == 3

\* The (L, H) instantiations explored; Chunk<2, 2> is the one the tests use.
ChunkDims == {<<1, 2>>, <<2, 2>>, <<3, 1>>}

(***************************************************************************)
(* Option                                                                  *)
(***************************************************************************)
None == <<>>
Some(v) == <<v>>
IsSome(o) == Len(o) = 1
IsNone(o) == Len(o) = 0
Unwrap(o) == o[1]

\* slice::get on an array modelled as a function over 0..n-1
Get(arr, i) == IF i \in DOMAIN arr THEN Some(arr[i]) ELSE None

\* Mutant of CheckedSub: usize::saturating_sub, which never reports underflow
CheckedSub_saturating(a, b) == IF a >= b THEN Some(a - b) ELSE Some(0)

\* usize::checked_sub
CheckedSub(a, b) == IF a >= b THEN Some(a - b) ELSE None

(***************************************************************************)
(* Face, BlockPos, Block                                                   *)
(***************************************************************************)
Front == "Front"
Back == "Back"
Up == "Up"
Down == "Down"
Left == "Left"
Right == "Right"

\* enum Face, in declaration (discriminant) order
FaceOrder == <<Front, Back, Up, Down, Left, Right>>
Face == {FaceOrder[i] : i \in 1..Len(FaceOrder)}

BlockPosNew(x, y, z) == [x |-> x, y |-> y, z |-> z]

Air == [tag |-> "Air", id |-> 0]
Dirt == [tag |-> "Dirt", id |-> 0]
Id(n) == [tag |-> "Id", id |-> n]

(***************************************************************************)
(* Chunk                                                                   *)
(***************************************************************************)
\* Chunk::new: blocks: [[[Block::Air; L]; L]; H]
ChunkNew(l, h) ==
    [blocks |-> [y \in 0..(h - 1) |-> [z \in 0..(l - 1) |-> [x \in 0..(l - 1) |-> Air]]]]

\* Mutant of index_block: the array indexed as blocks[y][x][z]
index_block_xz(c, block_pos) ==
    LET ys == Get(c.blocks, block_pos.y)
        zs == IF IsSome(ys) THEN Get(Unwrap(ys), block_pos.x) ELSE None
        xs == IF IsSome(zs) THEN Get(Unwrap(zs), block_pos.z) ELSE None
    IN  IF IsSome(xs)
        THEN Some([block_ref |-> Unwrap(xs), block_pos |-> block_pos])
        ELSE None

\* Chunk::index_block: blocks.get(y).and_then(get(z).and_then(get(x))).map(BlockRef)
index_block(c, block_pos) ==
    LET ys == Get(c.blocks, block_pos.y)
        zs == IF IsSome(ys) THEN Get(Unwrap(ys), block_pos.z) ELSE None
        xs == IF IsSome(zs) THEN Get(Unwrap(zs), block_pos.x) ELSE None
    IN  IF IsSome(xs)
        THEN Some([block_ref |-> Unwrap(xs), block_pos |-> block_pos])
        ELSE None

\* Mutant of index_block_mut: an index past the end falls back to cell 0 of
\* its axis instead of failing
index_block_mut_wrapping(c, block_pos) ==
    LET y == IF block_pos.y \in DOMAIN c.blocks THEN block_pos.y ELSE 0
        z == IF block_pos.z \in DOMAIN c.blocks[y] THEN block_pos.z ELSE 0
        x == IF block_pos.x \in DOMAIN c.blocks[y][z] THEN block_pos.x ELSE 0
    IN  Some(BlockPosNew(x, y, z))

\* Chunk::index_block_mut: the cell a write would go to, if any
index_block_mut(c, block_pos) ==
    LET ys == Get(c.blocks, block_pos.y)
        zs == IF IsSome(ys) THEN Get(Unwrap(ys), block_pos.z) ELSE None
        xs == IF IsSome(zs) THEN Get(Unwrap(zs), block_pos.x) ELSE None
    IN  IF IsSome(xs) THEN Some(block_pos) ELSE None

\* Mutant of place_block: the write fills the whole row blocks[y][z]
place_block_row(c, block_pos, block) ==
    LET cell == index_block_mut(c, block_pos)
    IN  IF IsNone(cell)
        THEN [chunk |-> c, ret |-> None]
        ELSE [chunk |-> [c EXCEPT !.blocks[Unwrap(cell).y][Unwrap(cell).z] =
                                      [x \in DOMAIN @ |-> block]],
              ret |-> Some("unit")]

\* Chunk::place_block: [chunk, ret], ret the Option<()> returned
place_block(c, block_pos, block) ==
    LET cell == index_block_mut(c, block_pos)
    IN  IF IsNone(cell)
        THEN [chunk |-> c, ret |-> None]
        ELSE [chunk |-> [c EXCEPT !.blocks[Unwrap(cell).y][Unwrap(cell).z][Unwrap(cell).x] = block],
              ret |-> Some("unit")]

\* Mutant of neighbor: Front/Back step along x and Right/Left along z
neighbor_axes_swapped(c, r, face) ==
    LET x == r.block_pos.x
        y == r.block_pos.y
        z == r.block_pos.z
    IN  CASE face = Front -> index_block(c, BlockPosNew(x + 1, y, z))
          [] face = Back ->
                LET s == CheckedSub(x, 1)
                IN  IF IsNone(s) THEN None ELSE index_block(c, BlockPosNew(Unwrap(s), y, z))
          [] face = Right -> index_block(c, BlockPosNew(x, y, z + 1))
          [] face = Left ->
                LET s == CheckedSub(z, 1)
                IN  IF IsNone(s) THEN None ELSE index_block(c, BlockPosNew(x, y, Unwrap(s)))
          [] face = Up -> index_block(c, BlockPosNew(x, y + 1, z))
          [] face = Down ->
                LET s == CheckedSub(y, 1)
                IN  IF IsNone(s) THEN None ELSE index_block(c, BlockPosNew(x, Unwrap(s), z))

\* BlockRef::neighbor, on the BlockRef r of chunk c
neighbor(c, r, face) ==
    LET x == r.block_pos.x
        y == r.block_pos.y
        z == r.block_pos.z
    IN  CASE face = Front ->
                LET s == CheckedSub(z, 1)
                IN  IF IsNone(s) THEN None ELSE index_block(c, BlockPosNew(x, y, Unwrap(s)))
          [] face = Back -> index_block(c, BlockPosNew(x, y, z + 1))
          [] face = Right -> index_block(c, BlockPosNew(x + 1, y, z))
          [] face = Left ->
                LET s == CheckedSub(x, 1)
                IN  IF IsNone(s) THEN None ELSE index_block(c, BlockPosNew(Unwrap(s), y, z))
          [] face = Up -> index_block(c, BlockPosNew(x, y + 1, z))
          [] face = Down ->
                LET s == CheckedSub(y, 1)
                IN  IF IsNone(s) THEN None ELSE index_block(c, BlockPosNew(x, Unwrap(s), z))

(***************************************************************************)
(* Mesh (src/src/mesh.rs). Floats are in halves: 0.5 is 1, 1.0 is 2.       *)
(***************************************************************************)
\* Vertex::new
VertexNew(position, color) == [position |-> position, color |-> color]

\* Mesh::new
MeshNew(vertices, indices) == [vertices |-> vertices, indices |-> indices]

\* macro face!: four vertices with the fixed colours, indices [0, 1, 2, 0, 3, 1]
face_quad(v1, v2, v3, v4) ==
    MeshNew(<<VertexNew(v1, <<2, 0, 0>>),
              VertexNew(v2, <<0, 2, 0>>),
              VertexNew(v3, <<0, 0, 2>>),
              VertexNew(v4, <<2, 2, 2>>)>>,
            <<0, 1, 2, 0, 3, 1>>)

UP_FACE == face_quad(<<-1, 1, 1>>, <<1, 1, -1>>, <<-1, 1, -1>>, <<1, 1, 1>>)
DOWN_FACE == face_quad(<<-1, -1, 1>>, <<1, -1, -1>>, <<-1, -1, -1>>, <<1, -1, 1>>)
LEFT_FACE == face_quad(<<-1, -1, 1>>, <<-1, 1, -1>>, <<-1, -1, -1>>, <<-1, 1, 1>>)
RIGHT_FACE == face_quad(<<1, -1, 1>>, <<1, 1, -1>>, <<1, -1, -1>>, <<1, 1, 1>>)
FRONT_FACE == face_quad(<<1, -1, -1>>, <<-1, 1, -1>>, <<-1, -1, -1>>, <<1, 1, -1>>)
BACK_FACE == face_quad(<<1, -1, 1>>, <<-1, 1, 1>>, <<-1, -1, 1>>, <<1, 1, 1>>)

\* Mutant of FaceMesh: Face::Right is given the quad of the back side
FaceMesh_right_is_back(f) ==
    CASE f = Front -> FRONT_FACE
      [] f = Back -> BACK_FACE
      [] f = Up -> UP_FACE
      [] f = Down -> DOWN_FACE
      [] f = Left -> LEFT_FACE
      [] f = Right -> BACK_FACE

\* Face::mesh
FaceMesh(f) ==
    CASE f = Front -> FRONT_FACE
      [] f = Back -> BACK_FACE
      [] f = Up -> UP_FACE
      [] f = Down -> DOWN_FACE
      [] f = Left -> LEFT_FACE
      [] f = Right -> RIGHT_FACE

\* The outward unit offset of a face, read off its quad: on the one axis where
\* all four vertices of the quad share a coordinate, the sign of that
\* coordinate; 0 on the two axes the quad spans.
AxisOffset(f, axis) ==
    LET vs == FaceMesh(f).vertices
        c == vs[1].position[axis]
    IN  IF \A i \in 1..Len(vs) : vs[i].position[axis] = c
        THEN (IF c > 0 THEN 1 ELSE -1)
        ELSE 0

\* P + offset(face), as integers (a coordinate may be -1 or past the end)
Shifted(p, f) ==
    [x |-> p.x + AxisOffset(f, 1), y |-> p.y + AxisOffset(f, 2), z |-> p.z + AxisOffset(f, 3)]

(***************************************************************************)
(* ChunkIter (src/src/chunk.rs)                                            *)
(***************************************************************************)
\* Chunk::iter
ChunkIterNew == [block_pos |-> BlockPosNew(0, 0, 0)]

\* Mutant of advance_index: the end of the chunk tested as y == H - 1
advance_index_last_row(it, l, h) ==
    LET x == it.block_pos.x
        y == it.block_pos.y
        z == it.block_pos.z
    IN  IF x = l - 1
        THEN IF z = l - 1
             THEN IF y = h - 1
                  THEN [it |-> [block_pos |-> BlockPosNew(0, y, 0)], ok |-> FALSE]
                  ELSE [it |-> [block_pos |-> BlockPosNew(0, y + 1, 0)], ok |-> TRUE]
             ELSE [it |-> [block_pos |-> BlockPosNew(0, y, z + 1)], ok |-> TRUE]
        ELSE [it |-> [block_pos |-> BlockPosNew(x + 1, y, z)], ok |-> TRUE]

\* ChunkIter::advance_index on a ChunkIter of a Chunk<l, h>: [it, ok]
advance_index(it, l, h) ==
    LET x == it.block_pos.x
        y == it.block_pos.y
        z == it.block_pos.z
    IN  IF x = l - 1
        THEN IF z = l - 1
             THEN IF y = h
                  THEN [it |-> [block_pos |-> BlockPosNew(0, y, 0)], ok |-> FALSE]
                  ELSE [it |-> [block_pos |-> BlockPosNew(0, y + 1, 0)], ok |-> TRUE]
             ELSE [it |-> [block_pos |-> BlockPosNew(0, y, z + 1)], ok |-> TRUE]
        ELSE [it |-> [block_pos |-> BlockPosNew(x + 1, y, z)], ok |-> TRUE]

\* ChunkIter::next: [it, item], item the Option<BlockRef> returned
next(c, it, l, h) ==
    LET res == index_block(c, it.block_pos)
        adv == advance_index(it, l, h)
    IN  IF ~adv.ok
        THEN [it |-> adv.it, item |-> None]
        ELSE [it |-> adv.it, item |-> res]

(***************************************************************************)
(* MeshBuilder (src/src/mesh.rs)                                           *)
(***************************************************************************)
\* u16::MAX, the largest value of curr_idx and of an index
U16Max == 65535

\* MeshBuilder::new
MeshBuilderNew == [vertices |-> <<>>, indices |-> <<>>, curr_idx |-> 0, panicked |-> FALSE]

\* usize as f32, in halves
AsF32(n) == 2 * n

\* Vertex::translate
translate(v, position) ==
    [position |-> <<v.position[1] + AsF32(position.x),
                    v.position[2] + AsF32(position.y),
                    v.position[3] + AsF32(position.z)>>,
     color |-> v.color]

\* u16::max
U16MaxOf(a, b) == IF a >= b THEN a ELSE b

RECURSIVE MaxIndex(_, _, _)
\* the max_idx that the first loop of push leaves, started from acc
MaxIndex(indices, k, acc) ==
    IF k > Len(indices) THEN acc
    ELSE MaxIndex(indices, k + 1, U16MaxOf(acc, indices[k]))

\* u16 addition. It overflows above u16::MAX: a build with overflow checks
\* panics there, a build without them wraps modulo 2^16.
U16Overflows(a, b) == a + b > U16Max
\* Mutant of U16Wrap: the sum is kept in 15 bits
U16Wrap_15_bits(a, b) == (a + b) % 32768
U16Wrap(a, b) == (a + b) % (U16Max + 1)

\* Mutant of push: the vertices are pushed as they are, not translated
push_untranslated(b, m, position, wrap) ==
    [vertices |-> b.vertices \o m.vertices,
     indices |-> b.indices \o [i \in 1..Len(m.indices) |-> U16Wrap(b.curr_idx, m.indices[i])],
     curr_idx |-> U16Wrap(b.curr_idx, MaxIndex(m.indices, 1, 0) + 1),
     panicked |-> FALSE]

\* Mutant of push: the running base advances by the number of indices
push_by_index_count(b, m, position, wrap) ==
    [vertices |-> b.vertices \o [i \in 1..Len(m.vertices) |-> translate(m.vertices[i], position)],
     indices |-> b.indices \o [i \in 1..Len(m.indices) |-> U16Wrap(b.curr_idx, m.indices[i])],
     curr_idx |-> U16Wrap(b.curr_idx, Len(m.indices)),
     panicked |-> FALSE]

\* MeshBuilder::push of the mesh m at position. wrap: the build wraps on u16
\* overflow (TRUE) or panics on it (FALSE). A panic ends the program with the
\* builder as it was when the overflowing addition was reached.
push(b, m, position, wrap) ==
    LET max_idx == MaxIndex(m.indices, 1, 0)
        \* the first index whose addition overflows, 0 if none does
        bad == IF \E i \in 1..Len(m.indices) : U16Overflows(b.curr_idx, m.indices[i])
               THEN CHOOSE i \in 1..Len(m.indices) :
                        /\ U16Overflows(b.curr_idx, m.indices[i])
                        /\ \A j \in 1..(i - 1) : ~U16Overflows(b.curr_idx, m.indices[j])
               ELSE 0
        pushed == [i \in 1..Len(m.indices) |-> U16Wrap(b.curr_idx, m.indices[i])]
    IN  IF ~wrap /\ bad # 0
        THEN [b EXCEPT !.indices = @ \o SubSeq(pushed, 1, bad - 1), !.panicked = TRUE]
        ELSE IF ~wrap /\ (U16Overflows(max_idx, 1) \/ U16Overflows(b.curr_idx, max_idx + 1))
        THEN [b EXCEPT !.indices = @ \o pushed, !.panicked = TRUE]
        ELSE [vertices |-> b.vertices \o
                  [i \in 1..Len(m.vertices) |-> translate(m.vertices[i], position)],
              indices |-> b.indices \o pushed,
              curr_idx |-> U16Wrap(b.curr_idx, U16Wrap(max_idx, 1)),
              panicked |-> FALSE]

\* MeshBuilder::build
build(b) == MeshNew(b.vertices, b.indices)

\* A MeshBuilder in summary. Its two vectors only grow, so of each the length
\* is kept, and of the indices the ones the last push appended:
\*   npushes push calls made; nverts, nidx the lengths of vertices and indices;
\*   last_indices the indices appended by the last push; curr_idx, panicked as
\*   in the builder; built the Option of the summary of the mesh build returned.
TallyNew ==
    [npushes |-> 0, nverts |-> 0, nidx |-> 0, last_indices |-> <<>>,
     curr_idx |-> 0, panicked |-> FALSE, built |-> None]

\* push on a builder in summary: push itself, run on a builder that holds the
\* curr_idx of the summary and none of the earlier elements
TallyPush(t, m, position, wrap) ==
    LET b == push([MeshBuilderNew EXCEPT !.curr_idx = t.curr_idx], m, position, wrap)
    IN  [npushes |-> t.npushes + 1,
         nverts |-> t.nverts + Len(b.vertices),
         nidx |-> t.nidx + Len(b.indices),
         last_indices |-> b.indices,
         curr_idx |-> b.curr_idx,
         panicked |-> b.panicked,
         built |-> None]

\* build on a builder in summary
TallyBuild(t) ==
    [t EXCEPT !.built = Some([nverts |-> t.nverts, nidx |-> t.nidx,
                              last_indices |-> t.last_indices])]

(***************************************************************************)
(* VoxelMesh (src/src/chunk.rs)                                            *)
(***************************************************************************)
\* VoxelMesh::new
VoxelMeshNew == [faces |-> <<>>, positions |-> <<>>]

\* Mutant of add_face: a face is pushed only when the neighbour is Air, not
\* when the neighbour is absent
add_face_air_only(f, c, block, vm) ==
    LET pos == block.block_pos
        n == neighbor(c, block, f)
    IN  IF IsSome(n) /\ Unwrap(n).block_ref = Air
        THEN [faces |-> Append(vm.faces, f), positions |-> Append(vm.positions, pos)]
        ELSE vm

\* macro add_face!, on the BlockRef block of chunk c
add_face(f, c, block, vm) ==
    LET pos == block.block_pos
        n == neighbor(c, block, f)
    IN  IF IsSome(n)
        THEN IF Unwrap(n).block_ref = Air
             THEN [faces |-> Append(vm.faces, f), positions |-> Append(vm.positions, pos)]
             ELSE vm
        ELSE [faces |-> Append(vm.faces, f), positions |-> Append(vm.positions, pos)]

\* Mutant of AddFaces: Left is tested before Down
AddFaces_left_first(c, block, vm) ==
    add_face(Right, c, block,
      add_face(Down, c, block,
        add_face(Left, c, block,
          add_face(Up, c, block,
            add_face(Back, c, block,
              add_face(Front, c, block, vm))))))

\* The body of the loop of serialize_chunk for one non-Air block
AddFaces(c, block, vm) ==
    add_face(Right, c, block,
      add_face(Left, c, block,
        add_face(Down, c, block,
          add_face(Up, c, block,
            add_face(Back, c, block,
              add_face(Front, c, block, vm))))))

RECURSIVE SerializeLoop(_, _, _, _, _)
\* for block in chunk.iter() { .. }: the loop ends at the first None
SerializeLoop(c, it, l, h, vm) ==
    LET n == next(c, it, l, h)
    IN  IF IsNone(n.item) THEN vm
        ELSE IF Unwrap(n.item).block_ref = Air
        THEN SerializeLoop(c, n.it, l, h, vm)
        ELSE SerializeLoop(c, n.it, l, h, AddFaces(c, Unwrap(n.item), vm))

\* Mutant of serialize_chunk: the lists are not cleared
serialize_chunk_appending(vm, c, l, h) ==
    SerializeLoop(c, ChunkIterNew, l, h, vm)

\* VoxelMesh::serialize_chunk on the VoxelMesh vm: both lists are cleared first
serialize_chunk(vm, c, l, h) ==
    SerializeLoop(c, ChunkIterNew, l, h, [vm EXCEPT !.faces = <<>>, !.positions = <<>>])

RECURSIVE PushFaces(_, _, _, _)
\* the loop of VoxelMesh::mesh over faces.iter().zip(positions.iter())
PushFaces(b, vm, k, wrap) ==
    IF k > Len(vm.faces) \/ k > Len(vm.positions) \/ b.panicked THEN b
    ELSE PushFaces(push(b, FaceMesh(vm.faces[k]), vm.positions[k], wrap), vm, k + 1, wrap)

\* VoxelMesh::mesh: Some(mesh), or None when the assertion or a push panics
VoxelMeshMesh(vm, wrap) ==
    IF Len(vm.faces) # Len(vm.positions) THEN None
    ELSE LET b == PushFaces(MeshBuilderNew, vm, 1, wrap)
         IN  IF b.panicked THEN None ELSE Some(build(b))

(***************************************************************************)
(* World (src/src/world.rs)                                                *)
(***************************************************************************)
\* ChunkPos::new(x, z): the position of a chunk in the world
ChunkPosNew(x, z) == [x |-> x, z |-> z]

\* Chunk::new(pos) and chunk.pos(): a Chunk that carries the ChunkPos it was
\* created with
ChunkAt(pos, c) == [pos |-> pos, blocks |-> c.blocks]

\* World::new, lines 20-26, on a Chunk<L, H> (the world's chunks are
\* Chunk<16, 16>): Dirt at every (x, y, z) with y < x; the result of each
\* place_block is dropped, so a y past the end is skipped.
WorldBlocks(l) ==
    {BlockPosNew(x, y, z) : x \in 0..(l - 1), y \in 0..(l - 2), z \in 0..(l - 1)}

RECURSIVE PlaceSet(_, _, _)
PlaceSet(c, todo, block) ==
    IF todo = {} THEN c
    ELSE LET p == CHOOSE q \in todo : TRUE
         IN  PlaceSet(place_block(c, p, block).chunk, todo \ {p}, block)

\* The loops of World::new over x and z in -RD..RD, row by row
WorldPositions ==
    [i \in 1..(2 * RD * 2 * RD) |->
        ChunkPosNew(((i - 1) \div (2 * RD)) - RD, ((i - 1) % (2 * RD)) - RD)]

\* No World has been created
NoWorld == [chunks |-> <<>>, scheduled_chunks |-> <<>>, to_update_chunks |-> <<>>]

\* World::new with chunks of Chunk<l, h>
WorldNew(l, h) ==
    [chunks |-> <<>>,
     scheduled_chunks |->
        [i \in 1..Len(WorldPositions) |->
            ChunkAt(WorldPositions[i],
                    PlaceSet(ChunkNew(l, h), {p \in WorldBlocks(l) : p.y < p.x}, Dirt))],
     to_update_chunks |-> <<>>]

\* World::to_update_chunks: [world, items], items what the iterator yields
to_update_chunks(w) ==
    [world |-> [w EXCEPT !.chunks = @ \o w.to_update_chunks, !.to_update_chunks = <<>>],
     items |-> w.to_update_chunks]

\* Mutant of scheduled_chunks: the scheduled group is emptied and its chunks
\* do not reach the active group
scheduled_chunks_lost(w) ==
    [world |-> [w EXCEPT !.scheduled_chunks = <<>>],
     items |-> w.scheduled_chunks]

\* Mutant of scheduled_chunks: the scheduled group is copied, not moved
scheduled_chunks_copy(w) ==
    [world |-> [w EXCEPT !.chunks = @ \o w.scheduled_chunks],
     items |-> w.scheduled_chunks]

\* World::scheduled_chunks: [world, items]
scheduled_chunks(w) ==
    [world |-> [w EXCEPT !.chunks = @ \o w.scheduled_chunks, !.scheduled_chunks = <<>>],
     items |-> w.scheduled_chunks]

(***************************************************************************)
(* ChunkRenderer (src/src/renderer/voxel_renderer.rs) and ChunksRenderer,  *)
(* MasterRenderer (src/src/renderer/mod.rs)                                *)
(***************************************************************************)
\* What a call hands back to its caller: Ok(..) or Err(..) of a Result, and
\* Unit for a function that returns (), from which no failure can be told
Ok(v) == [ok |-> TRUE, val |-> v]
Err(e) == [ok |-> FALSE, val |-> e]
Unit == Ok("unit")

\* The panic of Option::expect in update_chunk and prepare_chunk
NotFound == "ChunkRenderer not found"
\* The panic of Result::unwrap in MasterRenderer::prepare
UnwrapErr == "called Result::unwrap() on an Err value"
\* The panic of VoxelMesh::mesh (its assertion, or an overflow in push)
MeshPanic == "mesh"
\* The error VoxelPipeline::new returns when the device gives no pipeline
PipelineErr == "pipeline"

\* device.create_buffer_init, n times: the buffers it returns, each one a
\* buffer that none of the live objects holds and a different one per call.
\* A buffer is known by a number; live: the buffers the live objects hold.
NewBuffers(live, n) ==
    LET free == (1..(Cardinality(live) + n)) \ live
    IN  [i \in 1..n |-> CHOOSE b \in free : Cardinality({a \in free : a < b}) = i - 1]

\* ChunkRenderer::new on a device that gives the pipeline. VoxelPipeline::new
\* creates the camera uniform, the model uniform and the face storage, a
\* buffer each; uniforms is what chunk_pipeline.update last wrote to them.
\* render_info: the vertex and the index buffer of the Model, None as long
\* as model is None.
ChunkRendererNew(live) ==
    LET b == NewBuffers(live, 3)
    IN  [model |-> None, voxel_mesh |-> VoxelMeshNew, uniforms |-> None,
         chunk_pipeline |-> [camera_uniform |-> b[1], model_uniform |-> b[2],
                             faces_storage |-> b[3]],
         render_info |-> None]

\* The buffers a ChunkRenderer holds
BuffersOf(r) ==
    {r.chunk_pipeline.camera_uniform, r.chunk_pipeline.model_uniform,
     r.chunk_pipeline.faces_storage}
    \cup (IF IsSome(r.render_info)
          THEN {Unwrap(r.render_info).vertex_buffer, Unwrap(r.render_info).index_buffer}
          ELSE {})

\* The element of a set of one element. TheOne({F(x) : x \in {v}}) is
\* let x = v; F(x): v is computed once, before F uses it
TheOne(S) == CHOOSE y \in S : TRUE

\* ChunkRenderer::update_model: [renderer, panic]
update_model(r, live, c, l, h, wrap) ==
    LET WithMesh(vm) ==
            LET Store(m) ==
                    IF IsNone(m)
                    THEN [renderer |-> [r EXCEPT !.voxel_mesh = vm], panic |-> Some(MeshPanic)]
                    ELSE [renderer |->
                             [r EXCEPT !.voxel_mesh = vm, !.model = m,
                                       !.render_info =
                                           Some([vertex_buffer |-> NewBuffers(live, 2)[1],
                                                 index_buffer |-> NewBuffers(live, 2)[2]])],
                          panic |-> None]
            IN  TheOne({Store(m) : m \in {VoxelMeshMesh(vm, wrap)}})
    IN  TheOne({WithMesh(vm) : vm \in {serialize_chunk(r.voxel_mesh, c, l, h)}})

\* Mutant of update_uniforms: the buffers keep what they hold
update_uniforms_no_upload(r, camera, c) == r

\* ChunkRenderer::update_uniforms: VoxelPipeline::update writes the camera's
\* view-projection, the translation of the chunk and the face list to the
\* buffers of the pipeline
update_uniforms(r, camera, c) ==
    [r EXCEPT !.uniforms = Some([camera |-> camera, translation |-> c.pos,
                                 faces |-> r.voxel_mesh.faces])]

\* ChunksRenderer::new
ChunksRendererNew == [p \in {} |-> ChunkRendererNew({})]

\* The buffers the entries of a registry hold
Live(rs) == UNION {BuffersOf(rs[p]) : p \in DOMAIN rs}

\* Mutant of load_chunk: every new renderer is given the buffers of the first
load_chunk_same_buffers(rs, chunk_pos, created) ==
    IF ~created THEN [renderers |-> rs, ret |-> Err(PipelineErr)]
    ELSE [renderers |-> (chunk_pos :> ChunkRendererNew({})) @@ rs, ret |-> Unit]

\* Mutant of load_chunk: the entry is inserted before the failure is looked at
load_chunk_insert_first(rs, chunk_pos, created) ==
    [renderers |-> (chunk_pos :> ChunkRendererNew(Live(rs))) @@ rs,
     ret |-> IF created THEN Unit ELSE Err(PipelineErr)]

\* ChunksRenderer::load_chunk: [renderers, ret]; created: ChunkRenderer::new
\* returned Ok. HashMap::insert replaces the value of a key it holds.
load_chunk(rs, chunk_pos, created) ==
    IF ~created THEN [renderers |-> rs, ret |-> Err(PipelineErr)]
    ELSE [renderers |-> (chunk_pos :> ChunkRendererNew(Live(rs))) @@ rs, ret |-> Unit]

\* Mutant of unload_chunk: an entry that holds a model is kept
unload_chunk_keep_built(rs, chunk_pos) ==
    IF chunk_pos \in DOMAIN rs /\ IsSome(rs[chunk_pos].model) THEN rs
    ELSE [p \in DOMAIN rs \ {chunk_pos} |-> rs[p]]

\* ChunksRenderer::unload_chunk: HashMap::remove, its result dropped
unload_chunk(rs, chunk_pos) == [p \in DOMAIN rs \ {chunk_pos} |-> rs[p]]

\* ChunksRenderer::update_chunk: [renderers, panic]
update_chunk(rs, c, l, h, wrap) ==
    IF c.pos \notin DOMAIN rs
    THEN [renderers |-> rs, panic |-> Some(NotFound)]
    ELSE LET Store(u) == [renderers |-> [rs EXCEPT ![c.pos] = u.renderer], panic |-> u.panic]
         IN  TheOne({Store(u) : u \in {update_model(rs[c.pos], Live(rs), c, l, h, wrap)}})

\* ChunksRenderer::prepare_chunk: [renderers, panic]
prepare_chunk(rs, camera, c) ==
    IF c.pos \notin DOMAIN rs
    THEN [renderers |-> rs, panic |-> Some(NotFound)]
    ELSE [renderers |-> [rs EXCEPT ![c.pos] = update_uniforms(@, camera, c)], panic |-> None]

\* Mutant of render: a draw call for every entry
render_every_entry(rs) == DOMAIN rs

\* ChunksRenderer::render: the entries a draw call is issued for (those
\* whose model is Some), HashMap::values giving them in no fixed order
render(rs) == {p \in DOMAIN rs : IsSome(rs[p].model)}

\* The calls MasterRenderer::prepare makes, as it records them
Call(op, pos) == [op |-> op, pos |-> pos]

\* Mutant of ScheduledStep: the chunk is loaded and its model is not built
ScheduledStep_load_only(st, c, created, l, h, wrap) ==
    IF IsSome(st.panic) THEN st
    ELSE LET calls1 == Append(st.calls, Call("load_chunk", c.pos))
             Loaded(ld) ==
                 [renderers |-> ld.renderers, calls |-> calls1,
                  panic |-> IF ld.ret.ok THEN None ELSE Some(UnwrapErr)]
         IN  TheOne({Loaded(ld) : ld \in {load_chunk(st.renderers, c.pos, created)}})

\* One turn of the first loop of MasterRenderer::prepare, on chunk c:
\* [renderers, calls, panic]. created: whether ChunkRenderer::new returns Ok.
\* After a panic no further turn runs.
ScheduledStep(st, c, created, l, h, wrap) ==
    IF IsSome(st.panic) THEN st
    ELSE LET calls1 == Append(st.calls, Call("load_chunk", c.pos))
             Loaded(ld) ==
                 IF ~ld.ret.ok
                 THEN [renderers |-> ld.renderers, calls |-> calls1, panic |-> Some(UnwrapErr)]
                 ELSE LET Updated(u) ==
                              [renderers |-> u.renderers,
                               calls |-> Append(calls1, Call("update_chunk", c.pos)),
                               panic |-> u.panic]
                      IN  TheOne({Updated(u) : u \in {update_chunk(ld.renderers, c, l, h, wrap)}})
         IN  TheOne({Loaded(ld) : ld \in {load_chunk(st.renderers, c.pos, created)}})

RECURSIVE PrepareScheduled(_, _, _, _, _, _, _, _)
\* The first loop of MasterRenderer::prepare over items[lo..hi], in order,
\* started in st: the turns of items[lo..mid], then those of
\* items[mid + 1..hi] from the state the former leave. fail_at: the chunk on
\* which ChunkRenderer::new returns Err (0: none).
PrepareScheduled(st, items, lo, hi, fail_at, l, h, wrap) ==
    IF hi < lo THEN st
    ELSE IF lo = hi THEN ScheduledStep(st, items[lo], lo # fail_at, l, h, wrap)
    ELSE LET mid == (lo + hi) \div 2
         IN  TheOne({PrepareScheduled(st1, items, mid + 1, hi, fail_at, l, h, wrap) : st1 \in
                       {PrepareScheduled(st, items, lo, mid, fail_at, l, h, wrap)}})

\* One turn of the second loop of MasterRenderer::prepare, on chunk c
ToUpdateStep(st, c, l, h, wrap) ==
    IF IsSome(st.panic) THEN st
    ELSE LET Updated(u) ==
                 [renderers |-> u.renderers,
                  calls |-> Append(st.calls, Call("update_chunk", c.pos)),
                  panic |-> u.panic]
         IN  TheOne({Updated(u) : u \in {update_chunk(st.renderers, c, l, h, wrap)}})

RECURSIVE PrepareToUpdate(_, _, _, _, _, _, _)
\* The second loop of MasterRenderer::prepare over items[lo..hi], in order
PrepareToUpdate(st, items, lo, hi, l, h, wrap) ==
    IF hi < lo THEN st
    ELSE IF lo = hi THEN ToUpdateStep(st, items[lo], l, h, wrap)
    ELSE LET mid == (lo + hi) \div 2
         IN  TheOne({PrepareToUpdate(st1, items, mid + 1, hi, l, h, wrap) : st1 \in
                       {PrepareToUpdate(st, items, lo, mid, l, h, wrap)}})

\* Mutant of prepare: the dirty chunks first, and the scheduled chunks from
\* the second on
prepare_skip_first(rs, w, fail_at, l, h, wrap) ==
    LET s == scheduled_chunks(w)
        t == to_update_chunks(s.world)
        First(st1) == PrepareScheduled(st1, s.items, 2, Len(s.items), fail_at, l, h, wrap)
        Result(st2) == [world |-> t.world, renderers |-> st2.renderers, calls |-> st2.calls,
                        panic |-> st2.panic]
    IN  TheOne({Result(st2) : st2 \in
                  {First(st1) : st1 \in
                      {PrepareToUpdate([renderers |-> rs, calls |-> <<>>, panic |-> None],
                                       t.items, 1, Len(t.items), l, h, wrap)}}})

\* MasterRenderer::prepare: [world, renderers, calls, panic]. The iterator
\* of scheduled_chunks is used up before to_update_chunks is called; a panic
\* in the first loop leaves to_update_chunks uncalled.
prepare(rs, w, fail_at, l, h, wrap) ==
    LET s == scheduled_chunks(w)
        t == to_update_chunks(s.world)
        Second(st1) ==
            IF IsSome(st1.panic)
            THEN [world |-> s.world, renderers |-> st1.renderers, calls |-> st1.calls,
                  panic |-> st1.panic]
            ELSE LET Result(st2) ==
                         [world |-> t.world, renderers |-> st2.renderers,
                          calls |-> st2.calls, panic |-> st2.panic]
                 IN  TheOne({Result(st2) : st2 \in
                               {PrepareToUpdate(st1, t.items, 1, Len(t.items), l, h, wrap)}})
    IN  TheOne({Second(st1) : st1 \in
                  {PrepareScheduled([renderers |-> rs, calls |-> <<>>, panic |-> None],
                                    s.items, 1, Len(s.items), fail_at, l, h, wrap)}})

\* One turn of the loop of MasterRenderer::update_uniforms, on chunk c:
\* [renderers, panic]
UniformsStep(st, camera, c) ==
    IF IsSome(st.panic) THEN st ELSE prepare_chunk(st.renderers, camera, c)

RECURSIVE UpdateUniformsLoop(_, _, _, _, _)
\* The loop of MasterRenderer::update_uniforms over items[lo..hi], in order
UpdateUniformsLoop(st, camera, items, lo, hi) ==
    IF hi < lo THEN st
    ELSE IF lo = hi THEN UniformsStep(st, camera, items[lo])
    ELSE LET mid == (lo + hi) \div 2
         IN  TheOne({UpdateUniformsLoop(st1, camera, items, mid + 1, hi) : st1 \in
                       {UpdateUniformsLoop(st, camera, items, lo, mid)}})

(***************************************************************************)
(* Inputs                                                                  *)
(***************************************************************************)
\* Blocks handed to place_block
BlockInputs == {Air, Dirt, Id(2)}

\* The in-bounds positions of a Chunk<l, h>
Cells(l, h) == {BlockPosNew(x, y, z) : x \in 0..(l - 1), y \in 0..(h - 1), z \in 0..(l - 1)}

\* Positions handed to place_block and index_block: every cell, and positions
\* past the end on one axis, on two and on all three.
PosInputs ==
    Cells(L, H) \cup {BlockPosNew(L, 0, 0), BlockPosNew(0, H, 0), BlockPosNew(0, 0, L),
                      BlockPosNew(L - 1, H, L - 1), BlockPosNew(L, H - 1, L),
                      BlockPosNew(L + 1, H + 1, L + 1)}

(***************************************************************************)
(* Initial state                                                           *)
(***************************************************************************)
\* origin: the position given to index_block; faces: the neighbor calls chained
\* from its result; from: the BlockRef the last of them was called on.
NoPath == [origin |-> None, faces |-> <<>>, from |-> None]
NoRet == [pos |-> None, block |-> None, res |-> None]
NoCall == [op |-> "", pos |-> None, res |-> None]
\* Before the first frame. phase: "begin", then "prepared" once
\* MasterRenderer::prepare has returned, then "updated" once
\* MasterRenderer::update_uniforms has, and "begin" again after
\* MasterRenderer::render; camera: the Camera of the program; view_proj and
\* updated: the Camera and the positions of the chunks the last
\* update_uniforms was given; n: the frames drawn.
FrameNew == [phase |-> "begin", camera |-> 0, view_proj |-> None, updated |-> {}, n |-> 0]

Init ==
    /\ \E d \in ChunkDims : L = d[1] /\ H = d[2]
    /\ chunk = ChunkNew(L, H)
    /\ nplaced = 0
    /\ ret = NoRet
    /\ bref = None
    /\ path = NoPath
    /\ iter = None
    /\ yielded = <<>>
    /\ iter_ended = FALSE
    /\ voxel_mesh = VoxelMeshNew
    /\ mesh = None
    /\ builder = MeshBuilderNew
    /\ npushed = 0
    /\ pushes = <<>>
    /\ built = None
    /\ tally = TallyNew
    /\ world = NoWorld
    /\ renderers = ChunksRendererNew
    /\ calls = <<>>
    /\ draws = {}
    /\ rret = NoCall
    /\ panic = None
    /\ npasses = 0
    /\ ncalls = 0
    /\ frame = FrameNew

(***************************************************************************)
(* Chunk operations                                                        *)
(***************************************************************************)
\* A mutable borrow of the chunk: no ChunkIter over it is alive across it
DropIter ==
    /\ iter' = None
    /\ yielded' = <<>>
    /\ iter_ended' = FALSE

\* chunk.place_block(pos, block). The call borrows the chunk mutably, so no
\* BlockRef into it and no ChunkIter over it is alive across the call.
PlaceBlock ==
    /\ IsNone(panic)
    /\ nplaced < MaxPlace
    /\ \E pos \in PosInputs, block \in BlockInputs :
          LET r == place_block(chunk, pos, block)
          IN  /\ chunk' = r.chunk
              /\ ret' = [pos |-> Some(pos), block |-> Some(block), res |-> r.ret]
    /\ nplaced' = nplaced + 1
    /\ bref' = None
    /\ path' = NoPath
    /\ DropIter
    /\ UNCHANGED <<L, H, mesherVars, builderVars, rendererVars>>

\* tests::chunk_iteration_and_access, lines 289-297: eight place_block calls
\* that populate a new Chunk<2, 2>, each unwrapped.
TestBlocks ==
    <<[pos |-> BlockPosNew(0, 0, 0), block |-> Id(1)],
      [pos |-> BlockPosNew(1, 0, 0), block |-> Id(2)],
      [pos |-> BlockPosNew(0, 0, 1), block |-> Id(3)],
      [pos |-> BlockPosNew(1, 0, 1), block |-> Id(4)],
      [pos |-> BlockPosNew(0, 1, 0), block |-> Id(5)],
      [pos |-> BlockPosNew(1, 1, 0), block |-> Id(6)],
      [pos |-> BlockPosNew(0, 1, 1), block |-> Id(7)],
      [pos |-> BlockPosNew(1, 1, 1), block |-> Id(8)]>>

RECURSIVE PlaceAll(_, _, _)
PlaceAll(c, todo, k) ==
    IF k > Len(todo) THEN c
    ELSE PlaceAll(place_block(c, todo[k].pos, todo[k].block).chunk, todo, k + 1)

TestPopulate ==
    /\ IsNone(panic)
    /\ L = 2
    /\ H = 2
    /\ chunk = ChunkNew(L, H)
    /\ chunk' = PlaceAll(chunk, TestBlocks, 1)
    /\ nplaced' = nplaced
    /\ ret' = [pos |-> Some(TestBlocks[Len(TestBlocks)].pos),
               block |-> Some(TestBlocks[Len(TestBlocks)].block), res |-> Some("unit")]
    /\ bref' = None
    /\ path' = NoPath
    /\ DropIter
    /\ UNCHANGED <<L, H, mesherVars, builderVars, rendererVars>>

\* chunk.index_block(pos): the caller now holds the result
IndexBlock ==
    /\ \E pos \in PosInputs :
          /\ bref' = index_block(chunk, pos)
          /\ path' = [origin |-> Some(pos), faces |-> <<>>, from |-> None]
    /\ UNCHANGED <<chunkVars, iterVars, mesherVars, builderVars, rendererVars>>

\* tests::chunk_iteration_and_access, lines 305-306: the longest chain of
\* neighbor calls the code makes; chains are explored up to its length.
TestChain == <<Right, Up>>

\* b.neighbor(face) on the held BlockRef (Option::and_then for a chained call)
Neighbor ==
    /\ IsSome(bref)
    /\ Len(path.faces) < Len(TestChain)
    /\ \E face \in Face :
          /\ bref' = neighbor(chunk, Unwrap(bref), face)
          /\ path' = [path EXCEPT !.faces = Append(@, face), !.from = bref]
    /\ UNCHANGED <<chunkVars, iterVars, mesherVars, builderVars, rendererVars>>

NextChunk ==
    \/ PlaceBlock
    \/ TestPopulate
    \/ IndexBlock
    \/ Neighbor

SpecChunk == Init /\ [][NextChunk]_vars

(***************************************************************************)
(* ChunkIter operations                                                    *)
(***************************************************************************)
\* chunk.iter(): the caller now holds a new ChunkIter, whatever it held before
IterCall ==
    /\ iter' = Some(ChunkIterNew)
    /\ yielded' = <<>>
    /\ iter_ended' = FALSE
    /\ UNCHANGED <<chunkVars, refVars, mesherVars, builderVars, rendererVars>>

\* iter.next() on the held ChunkIter, as a for loop calls it: until it
\* returns None
IterNext ==
    /\ IsSome(iter)
    /\ ~iter_ended
    /\ LET r == next(chunk, Unwrap(iter), L, H)
       IN  /\ iter' = Some(r.it)
           /\ yielded' = IF IsSome(r.item) THEN Append(yielded, Unwrap(r.item)) ELSE yielded
           /\ iter_ended' = IsNone(r.item)
    /\ UNCHANGED <<chunkVars, refVars, mesherVars, builderVars, rendererVars>>

NextIter ==
    \/ PlaceBlock
    \/ TestPopulate
    \/ IterCall
    \/ IterNext

SpecIter == Init /\ [][NextIter]_vars

(***************************************************************************)
(* VoxelMesh operations                                                    *)
(***************************************************************************)
WorldFill ==
    /\ chunk = ChunkNew(L, H)
    /\ chunk' = PlaceSet(chunk, {p \in WorldBlocks(L) : p.y < p.x}, Dirt)
    /\ chunk' # chunk
    /\ ret' = NoRet
    /\ bref' = None
    /\ path' = NoPath
    /\ DropIter
    /\ UNCHANGED <<L, H, nplaced, mesherVars, builderVars, rendererVars>>

\* voxel_mesh.serialize_chunk(&chunk)
SerializeChunk ==
    /\ UNCHANGED <<chunkVars, refVars, iterVars, mesh, builderVars, rendererVars>>
    /\ voxel_mesh' = serialize_chunk(voxel_mesh, chunk, L, H)

\* voxel_mesh.mesh()
MeshCall ==
    /\ UNCHANGED <<chunkVars, refVars, iterVars, voxel_mesh, builderVars, rendererVars>>
    /\ \E wrap \in BOOLEAN : mesh' = VoxelMeshMesh(voxel_mesh, wrap)

NextMesher ==
    \/ PlaceBlock
    \/ TestPopulate
    \/ WorldFill
    \/ SerializeChunk
    \/ MeshCall

SpecMesher == Init /\ [][NextMesher]_vars

(***************************************************************************)
(* MeshBuilder operations                                                  *)
(***************************************************************************)
\* Positions handed to push
PushPositions ==
    {BlockPosNew(0, 0, 0), BlockPosNew(1, 0, 0), BlockPosNew(0, 2, 0), BlockPosNew(3, 1, 2)}

\* builder.push(face.mesh(), position)
BuilderPush ==
    /\ npushed < MaxPushes
    /\ IsNone(built)
    /\ ~builder.panicked
    /\ \E f \in Face, position \in PushPositions, wrap \in BOOLEAN :
          /\ builder' = push(builder, FaceMesh(f), position, wrap)
          /\ pushes' = Append(pushes, [face |-> f, position |-> position])
    /\ npushed' = npushed + 1
    /\ UNCHANGED <<chunkVars, refVars, iterVars, mesherVars, built, tally, rendererVars>>

\* builder.build()
BuilderBuild ==
    /\ IsNone(built)
    /\ ~builder.panicked
    /\ built' = Some(build(builder))
    /\ UNCHANGED <<chunkVars, refVars, iterVars, mesherVars, builder, npushed, pushes, tally, rendererVars>>

\* tests::it_works: UP_FACE, DOWN_FACE and RIGHT_FACE pushed at (0, 0, 0) into
\* a new MeshBuilder, and the mesh built
ItWorksPushes ==
    <<[face |-> Up, position |-> BlockPosNew(0, 0, 0)],
      [face |-> Down, position |-> BlockPosNew(0, 0, 0)],
      [face |-> Right, position |-> BlockPosNew(0, 0, 0)]>>

TestItWorks ==
    /\ npushed = 0
    /\ IsNone(built)
    /\ builder = MeshBuilderNew
    /\ \E wrap \in BOOLEAN :
          \E m \in {push(push(push(MeshBuilderNew, UP_FACE, BlockPosNew(0, 0, 0), wrap),
                              DOWN_FACE, BlockPosNew(0, 0, 0), wrap),
                         RIGHT_FACE, BlockPosNew(0, 0, 0), wrap)} :
              /\ builder' = m
              /\ built' = Some(build(m))
    /\ pushes' = ItWorksPushes
    /\ npushed' = Len(ItWorksPushes)
    /\ UNCHANGED <<chunkVars, refVars, iterVars, mesherVars, tally, rendererVars>>

NextBuilder ==
    \/ BuilderPush
    \/ BuilderBuild
    \/ TestItWorks

\* The builder is run beside the new Chunk<2, 2> of the tests
InitBuilder == Init /\ L = 2 /\ H = 2

SpecBuilder == InitBuilder /\ [][NextBuilder]_vars

\* builder.push(face.mesh(), position) on the builder kept in summary
LongPush ==
    /\ tally.npushes < MaxLongPushes
    /\ IsNone(tally.built)
    /\ ~tally.panicked
    /\ \E f \in Face, wrap \in BOOLEAN :
          tally' = TallyPush(tally, FaceMesh(f), BlockPosNew(0, 0, 0), wrap)
    /\ UNCHANGED <<chunkVars, refVars, iterVars, mesherVars, builder, npushed, pushes, built, rendererVars>>

\* builder.build() on the builder kept in summary
LongBuild ==
    /\ IsNone(tally.built)
    /\ ~tally.panicked
    /\ tally' = TallyBuild(tally)
    /\ UNCHANGED <<chunkVars, refVars, iterVars, mesherVars, builder, npushed, pushes, built, rendererVars>>

NextLong ==
    \/ LongPush
    \/ LongBuild

SpecLong == InitBuilder /\ [][NextLong]_vars

(***************************************************************************)
(* World, ChunksRenderer and MasterRenderer operations                     *)
(***************************************************************************)
\* The positions MasterRenderer::new gives its two chunks (lines 117, 128),
\* handed to load_chunk and unload_chunk: with RD = 1 the first is the
\* position of a chunk of the World and the second is not.
RegistryPositions == {ChunkPosNew(0, -1), ChunkPosNew(1, 0)}

\* The position of the chunk the caller owns (chunk2 of MasterRenderer)
CallerPos == ChunkPosNew(1, 0)

\* World::new()
NewWorld ==
    /\ IsNone(panic)
    /\ world = NoWorld
    /\ world' = WorldNew(L, H)
    /\ UNCHANGED <<chunkVars, refVars, iterVars, mesherVars, builderVars,
                   renderers, calls, draws, rret, panic, npasses, ncalls, frame>>

\* renderers.load_chunk(device, format, pos)
LoadChunk ==
    /\ IsNone(panic)
    /\ ncalls < MaxCalls
    /\ \E pos \in RegistryPositions, created \in BOOLEAN :
          \E r \in {load_chunk(renderers, pos, created)} :
              /\ renderers' = r.renderers
              /\ rret' = [op |-> "load_chunk", pos |-> Some(pos), res |-> Some(r.ret)]
    /\ ncalls' = ncalls + 1
    /\ UNCHANGED <<chunkVars, refVars, iterVars, mesherVars, builderVars,
                   world, calls, draws, panic, npasses, frame>>

\* renderers.unload_chunk(pos)
UnloadChunk ==
    /\ IsNone(panic)
    /\ ncalls < MaxCalls
    /\ \E pos \in RegistryPositions :
          /\ renderers' = unload_chunk(renderers, pos)
          /\ rret' = [op |-> "unload_chunk", pos |-> Some(pos), res |-> Some(Unit)]
    /\ ncalls' = ncalls + 1
    /\ UNCHANGED <<chunkVars, refVars, iterVars, mesherVars, builderVars,
                   world, calls, draws, panic, npasses, frame>>

\* renderers.update_chunk(device, &chunk) with the caller's chunk; a panic
\* ends the program before the call returns
UpdateChunk ==
    /\ IsNone(panic)
    /\ ncalls < MaxCalls
    /\ \E wrap \in BOOLEAN :
          \E r \in {update_chunk(renderers, ChunkAt(CallerPos, chunk), L, H, wrap)} :
              /\ renderers' = r.renderers
              /\ panic' = r.panic
              /\ rret' = [op |-> "update_chunk", pos |-> Some(CallerPos),
                          res |-> IF IsNone(r.panic) THEN Some(Unit) ELSE None]
    /\ ncalls' = ncalls + 1
    /\ UNCHANGED <<chunkVars, refVars, iterVars, mesherVars, builderVars,
                   world, calls, draws, npasses, frame>>

\* renderers.prepare_chunk(queue, camera, &chunk) with the caller's chunk
PrepareChunk ==
    /\ IsNone(panic)
    /\ ncalls < MaxCalls
    /\ \E r \in {prepare_chunk(renderers, frame.camera, ChunkAt(CallerPos, chunk))} :
           /\ renderers' = r.renderers
           /\ panic' = r.panic
           /\ rret' = [op |-> "prepare_chunk", pos |-> Some(CallerPos),
                       res |-> IF IsNone(r.panic) THEN Some(Unit) ELSE None]
    /\ ncalls' = ncalls + 1
    /\ UNCHANGED <<chunkVars, refVars, iterVars, mesherVars, builderVars,
                   world, calls, draws, npasses, frame>>

\* master_renderer.prepare(device, &mut world)
Prepare ==
    /\ IsNone(panic)
    /\ world # NoWorld
    /\ npasses < MaxPasses
    /\ \E fail_at \in 0..Len(world.scheduled_chunks), wrap \in BOOLEAN :
          \E r \in {prepare(renderers, world, fail_at, L, H, wrap)} :
              /\ world' = r.world
              /\ renderers' = r.renderers
              /\ calls' = r.calls
              /\ panic' = r.panic
    /\ npasses' = npasses + 1
    /\ UNCHANGED <<chunkVars, refVars, iterVars, mesherVars, builderVars,
                   draws, rret, ncalls, frame>>

\* master_renderer.update_uniforms(queue, camera, world.chunks())
UpdateUniforms ==
    /\ IsNone(panic)
    /\ world # NoWorld
    /\ \E r \in {UpdateUniformsLoop([renderers |-> renderers, panic |-> None], frame.camera,
                                      world.chunks, 1, Len(world.chunks))} :
           /\ renderers' = r.renderers
           /\ panic' = r.panic
    /\ UNCHANGED <<chunkVars, refVars, iterVars, mesherVars, builderVars,
                   world, calls, draws, rret, npasses, ncalls, frame>>

\* master_renderer.render(encoder, view, depth_view): the draw calls of
\* chunks_renderer.render (the model m1, drawn after them, is no chunk)
Render ==
    /\ IsNone(panic)
    /\ draws' = render(renderers)
    /\ rret' = [op |-> "render", pos |-> None, res |-> Some(Unit)]
    /\ UNCHANGED <<chunkVars, refVars, iterVars, mesherVars, builderVars,
                   world, renderers, calls, panic, npasses, ncalls, frame>>

\* The caller's chunk is mutated by the place_block calls of TestPopulate
NextRenderer ==
    \/ NewWorld
    \/ TestPopulate
    \/ LoadChunk
    \/ UnloadChunk
    \/ UpdateChunk
    \/ PrepareChunk
    \/ Prepare
    \/ UpdateUniforms
    \/ Render

\* The World's and the caller's chunks are Chunk<2, 2>
SpecRenderer == InitBuilder /\ [][NextRenderer]_vars

(***************************************************************************)
(* The frame loop: each frame is MasterRenderer::prepare, then             *)
(* MasterRenderer::update_uniforms over World::chunks, then                *)
(* MasterRenderer::render                                                  *)
(***************************************************************************)
\* The view-projections the Camera takes as the camera controller moves it
Cameras == {0, 1, 2}

\* The positions of the chunks in a list
Positions(items) == {items[i].pos : i \in 1..Len(items)}

\* The prepare phase of a frame: master_renderer.prepare(device, &mut world)
FramePrepare ==
    /\ IsNone(panic)
    /\ world # NoWorld
    /\ frame.phase = "begin"
    /\ frame.n < MaxFrames
    /\ \E fail_at \in 0..Len(world.scheduled_chunks), wrap \in BOOLEAN :
          \E r \in {prepare(renderers, world, fail_at, L, H, wrap)} :
              /\ world' = r.world
              /\ renderers' = r.renderers
              /\ calls' = r.calls
              /\ panic' = r.panic
    /\ npasses' = npasses + 1
    /\ frame' = [frame EXCEPT !.phase = "prepared"]
    /\ UNCHANGED <<chunkVars, refVars, iterVars, mesherVars, builderVars,
                   draws, rret, ncalls>>

\* Display::update: master_renderer.update_uniforms(queue, &camera,
\* world.chunks()), and then camera_controller.update_camera(&mut camera, dt)
FrameUpdate ==
    /\ IsNone(panic)
    /\ frame.phase = "prepared"
    /\ \E r \in {UpdateUniformsLoop([renderers |-> renderers, panic |-> None], frame.camera,
                                     world.chunks, 1, Len(world.chunks))} :
           /\ renderers' = r.renderers
           /\ panic' = r.panic
           /\ \E moved \in Cameras :
                 frame' = [frame EXCEPT !.phase = "updated",
                                        !.view_proj = Some(frame.camera),
                                        !.updated = Positions(world.chunks),
                                        !.camera = IF IsNone(r.panic) THEN moved ELSE @]
    /\ UNCHANGED <<chunkVars, refVars, iterVars, mesherVars, builderVars,
                   world, calls, draws, rret, npasses, ncalls>>

\* Display::render: master_renderer.render(encoder, view, depth_view), which
\* ends the frame
FrameRender ==
    /\ IsNone(panic)
    /\ frame.phase = "updated"
    /\ draws' = render(renderers)
    /\ rret' = [op |-> "render", pos |-> None, res |-> Some(Unit)]
    /\ frame' = [frame EXCEPT !.phase = "begin", !.n = @ + 1]
    /\ UNCHANGED <<chunkVars, refVars, iterVars, mesherVars, builderVars,
                   world, renderers, calls, panic, npasses, ncalls>>

NextFrame ==
    \/ NewWorld
    \/ FramePrepare
    \/ FrameUpdate
    \/ FrameRender

\* The frames of a program that holds a World of Chunk<L, H>
SpecFrame == Init /\ [][NextFrame]_vars

(***************************************************************************)
(* Properties of Chunk and BlockRef, checked under SpecChunk               *)
(***************************************************************************)
\* The block stored at the in-bounds position p
BlockAt(c, p) == c.blocks[p.y][p.z][p.x]

\* The BlockRef of the in-bounds position p
RefAt(c, p) == [block_ref |-> BlockAt(c, p), block_pos |-> p]

InBounds(p) == p \in Cells(L, H)

\* A neighbor call has just been made: on the BlockRef path.from, with the
\* face LastFace, and bref is what it returned.
NeighborCalled == Len(path.faces) >= 1
LastFace == path.faces[Len(path.faces)]
LastFrom == Unwrap(path.from).block_pos

Opposite(f) ==
    CASE f = Front -> Back
      [] f = Back -> Front
      [] f = Up -> Down
      [] f = Down -> Up
      [] f = Left -> Right
      [] f = Right -> Left

\* C6 (neighbor symmetry). Whenever neighbor(face) is called on the cell P and
\* P + offset(face) is inside the chunk, the result is the block stored at
\* P + offset(face); and when the opposite face is then looked up from that
\* result, the result is the block stored at P.
C6_NeighborSymmetry ==
    /\ (NeighborCalled /\ InBounds(Shifted(LastFrom, LastFace)))
          => bref = Some(RefAt(chunk, Shifted(LastFrom, LastFace)))
    /\ (/\ Len(path.faces) = 2
        /\ path.faces[2] = Opposite(path.faces[1])
        /\ InBounds(Unwrap(path.origin))
        /\ InBounds(Shifted(Unwrap(path.origin), path.faces[1])))
          => bref = Some(RefAt(chunk, Unwrap(path.origin)))

\* C6 witness: a lookup and the opposite lookup have come back to a cell that
\* holds a solid block, through a neighbour holding a different block.
C6_Witness ==
    /\ Len(path.faces) = 2
    /\ path.faces[2] = Opposite(path.faces[1])
    /\ IsSome(bref)
    /\ Unwrap(bref).block_pos = Unwrap(path.origin)
    /\ Unwrap(bref).block_ref # Air
    /\ Unwrap(path.from).block_ref # Unwrap(bref).block_ref

\* C7 (boundary absence). A neighbor call whose target P + offset(face) has a
\* coordinate below 0, or equal to L on x or z, or equal to H on y, returns
\* None; a call whose target is inside the chunk returns Some.
C7_BoundaryAbsence ==
    NeighborCalled =>
        LET t == Shifted(LastFrom, LastFace)
            outside == \/ t.x < 0 \/ t.y < 0 \/ t.z < 0
                       \/ t.x >= L \/ t.y >= H \/ t.z >= L
        IN  /\ outside => IsNone(bref)
            /\ ~outside => IsSome(bref)

\* C7 witness: an outward lookup from an edge cell of a chunk that holds a
\* solid block has returned None.
C7_Witness ==
    /\ NeighborCalled
    /\ IsNone(bref)
    /\ ~InBounds(Shifted(LastFrom, LastFace))
    /\ Unwrap(path.from).block_ref # Air

\* C8 (the test's expectations). In a 2x2x2 chunk with Id(2) at (1,0,0) and
\* Id(3) at (0,0,1), a lookup from the cell (0,0,0) gives Id(2) for Front,
\* Id(3) for Right, and None for Back and for Left.
C8_TestNeighbors ==
    (/\ L = 2
     /\ H = 2
     /\ BlockAt(chunk, BlockPosNew(1, 0, 0)) = Id(2)
     /\ BlockAt(chunk, BlockPosNew(0, 0, 1)) = Id(3)
     /\ Len(path.faces) = 1
     /\ path.origin = Some(BlockPosNew(0, 0, 0)))
        => /\ LastFace = Front => (IsSome(bref) /\ Unwrap(bref).block_ref = Id(2))
           /\ LastFace = Right => (IsSome(bref) /\ Unwrap(bref).block_ref = Id(3))
           /\ LastFace = Back => IsNone(bref)
           /\ LastFace = Left => IsNone(bref)

\* A chunk in which every cell holds a solid block
FullyPopulated == \A p \in Cells(L, H) : BlockAt(chunk, p) # Air

PlaceCalled == nplaced' = nplaced + 1

OutOfRange(p) == p.x >= L \/ p.y >= H \/ p.z >= L

\* C10 (out-of-range placement). A place_block call with x >= L, y >= H or
\* z >= L returns None and leaves every cell of the chunk as it was.
C10_OutOfRangePlace ==
    [][(PlaceCalled /\ OutOfRange(Unwrap(ret'.pos)))
          => (IsNone(ret'.res) /\ chunk' = chunk)]_vars

\* C10 witness: an out-of-range placement has returned None on a chunk that
\* holds solid blocks.
C10_Witness ==
    /\ IsSome(ret.pos)
    /\ OutOfRange(Unwrap(ret.pos))
    /\ IsNone(ret.res)
    /\ nplaced >= 1
    /\ FullyPopulated

\* C11 (place_block). A new chunk holds Air in every cell. A place_block call
\* with an in-bounds position returns Some, makes the cell at exactly (x, y, z)
\* hold the block, so that index_block on that position returns it, and leaves
\* every other cell as it was.
C11_PlaceInBounds ==
    /\ \A p \in Cells(L, H) : BlockAt(chunk, p) = Air
    /\ [][(PlaceCalled /\ InBounds(Unwrap(ret'.pos)))
            => LET pos == Unwrap(ret'.pos)
                   block == Unwrap(ret'.block)
               IN  /\ ret'.res = Some("unit")
                   /\ BlockAt(chunk', pos) = block
                   /\ index_block(chunk', pos) = Some([block_ref |-> block, block_pos |-> pos])
                   /\ \A q \in Cells(L, H) \ {pos} : BlockAt(chunk', q) = BlockAt(chunk, q)]_vars

\* C11 witness: Dirt has been placed at (1,0,1) of the chunk the test
\* populates, whose other cells still hold the blocks the test gave them.
C11_Witness ==
    /\ nplaced >= 1
    /\ ret = [pos |-> Some(BlockPosNew(1, 0, 1)), block |-> Some(Dirt), res |-> Some("unit")]
    /\ BlockAt(chunk, BlockPosNew(1, 0, 1)) = Dirt
    /\ BlockAt(chunk, BlockPosNew(0, 0, 1)) = Id(3)
    /\ BlockAt(chunk, BlockPosNew(1, 1, 1)) = Id(8)

(***************************************************************************)
(* Properties of ChunkIter, checked under SpecIter                         *)
(***************************************************************************)
\* The k-th cell (from 0) in the order x fastest, then z, then y
CellOfRank(k) == BlockPosNew(k % L, k \div (L * L), (k \div L) % L)

\* What an iteration has yielded so far is the start of the list of all cells
\* in order, each with its own position and the block the chunk holds there;
\* the iteration ends after the last cell and not before.
C12_Post(c, ys, ended) ==
    /\ Len(ys) <= L * L * H
    /\ \A k \in 1..Len(ys) :
          /\ ys[k].block_pos = CellOfRank(k - 1)
          /\ ys[k].block_pos \in Cells(L, H)
          /\ ys[k].block_ref = BlockAt(c, ys[k].block_pos)
    /\ ended => Len(ys) = L * L * H

\* C12 (iteration). For every chunk shape, chunk.iter() starts a new iteration
\* at (0,0,0) and leaves the chunk as it is, and the iteration yields each of
\* the L*L*H cells once with its own position, x fastest, then z, then y, no
\* position out of bounds, the last cell included, and then ends.
C12_IterAllCells ==
    [][((IterCall => (yielded' = <<>> /\ Unwrap(iter').block_pos = BlockPosNew(0, 0, 0)))
        /\ ((IterCall \/ IterNext) => (chunk' = chunk /\ C12_Post(chunk', yielded', iter_ended'))))]_vars

\* C12 witness: an iteration over the chunk the test populates has ended
\* after yielding its eight cells, the last of them (1,1,1) with Id(8).
C12_Witness ==
    /\ L = 2
    /\ H = 2
    /\ iter_ended
    /\ Len(yielded) = 8
    /\ yielded[4] = [block_ref |-> Id(4), block_pos |-> BlockPosNew(1, 0, 1)]
    /\ yielded[8] = [block_ref |-> Id(8), block_pos |-> BlockPosNew(1, 1, 1)]

(***************************************************************************)
(* Properties of VoxelMesh, checked under SpecMesher                       *)
(***************************************************************************)
\* Face f is in the face list of vm, paired with position p
Emitted(vm, f, p) ==
    \E i \in 1..Len(vm.faces) :
        i <= Len(vm.positions) /\ vm.faces[i] = f /\ vm.positions[i] = p

\* The cell p of chunk c is solid and its neighbour on side f is outside the
\* chunk or Air
Visible(c, f, p) ==
    /\ BlockAt(c, p) # Air
    /\ \/ ~InBounds(Shifted(p, f))
       \/ BlockAt(c, Shifted(p, f)) = Air

C1_Post(vm, c) ==
    /\ \A p \in Cells(L, H), f \in Face : Emitted(vm, f, p) <=> Visible(c, f, p)
    /\ \A i \in 1..Len(vm.positions) : InBounds(vm.positions[i])

\* C1 (visible faces). After serialize_chunk, face F is in the list at
\* position P exactly when the cell at P is not Air and the neighbour of P on
\* side F is outside the chunk or Air; an Air cell has no face in the list.
C1_VisibleFaces == [][SerializeChunk => C1_Post(voxel_mesh', chunk')]_vars

\* The face list is the one serialize_chunk gives for the current chunk
MeshedNow == voxel_mesh = serialize_chunk(voxel_mesh, chunk, L, H)

\* C1 witness: the chunk has been serialized and holds a face hidden by a
\* solid neighbour, a face shown to an Air neighbour and a face shown at the
\* chunk edge.
C1_Witness ==
    /\ MeshedNow
    /\ \E p \in Cells(L, H), f \in Face :
          /\ BlockAt(chunk, p) # Air
          /\ InBounds(Shifted(p, f))
          /\ BlockAt(chunk, Shifted(p, f)) # Air
          /\ ~Emitted(voxel_mesh, f, p)
    /\ \E p \in Cells(L, H), f \in Face :
          /\ InBounds(Shifted(p, f))
          /\ Emitted(voxel_mesh, f, p)
    /\ \E p \in Cells(L, H), f \in Face :
          /\ ~InBounds(Shifted(p, f))
          /\ Emitted(voxel_mesh, f, p)

\* The chunk holds exactly one solid block, at p
OneSolidAt(c, p) ==
    /\ InBounds(p)
    /\ \A q \in Cells(L, H) : (BlockAt(c, q) # Air) <=> (q = p)

\* The six faces in enumeration order, and six copies of p
SixFaces == <<Front, Back, Up, Down, Left, Right>>
SixTimes(p) == [i \in 1..6 |-> p]

\* The mesh of the six face quads at p, written out: quad k (from 0) gives the
\* vertices 4k..4k+3, each the quad's vertex moved by p, and the indices
\* [0,1,2,0,3,1] + 4k.
SixQuads == <<FRONT_FACE, BACK_FACE, UP_FACE, DOWN_FACE, LEFT_FACE, RIGHT_FACE>>
SixQuadMesh(p) ==
    [vertices |-> [n \in 1..24 |->
        LET v == SixQuads[((n - 1) \div 4) + 1].vertices[((n - 1) % 4) + 1]
        IN  [position |-> <<v.position[1] + 2 * p.x,
                            v.position[2] + 2 * p.y,
                            v.position[3] + 2 * p.z>>,
             color |-> v.color]],
     indices |-> [n \in 1..36 |->
        <<0, 1, 2, 0, 3, 1>>[((n - 1) % 6) + 1] + 4 * ((n - 1) \div 6)]]

\* The same mesh, built as tests::quad_mesh builds it
SixPushes(p) ==
    build(push(push(push(push(push(push(MeshBuilderNew,
        FRONT_FACE, p, TRUE), BACK_FACE, p, TRUE), UP_FACE, p, TRUE),
        DOWN_FACE, p, TRUE), LEFT_FACE, p, TRUE), RIGHT_FACE, p, TRUE))

\* C2 (single block). For a chunk with one solid block, at p, serialize_chunk
\* leaves the faces Front, Back, Up, Down, Left, Right, once each in that
\* order, all paired with p; and mesh() on that list returns the mesh of the
\* six face quads pushed at p: 24 vertices and 36 indices.
C2_SingleBlock ==
    [][\A p \in Cells(L, H) :
          /\ (OneSolidAt(chunk, p) /\ SerializeChunk)
                => (voxel_mesh'.faces = SixFaces /\ voxel_mesh'.positions = SixTimes(p))
          /\ (voxel_mesh.faces = SixFaces /\ voxel_mesh.positions = SixTimes(p) /\ MeshCall)
                => /\ mesh' = Some(SixQuadMesh(p))
                   /\ mesh' = Some(SixPushes(p))
                   /\ Len(Unwrap(mesh').vertices) = 24
                   /\ Len(Unwrap(mesh').indices) = 36]_vars

\* C2 witness: a chunk whose one solid block is away from the origin has been
\* serialized and meshed.
C2_Witness ==
    \E p \in Cells(L, H) :
        /\ p # BlockPosNew(0, 0, 0)
        /\ OneSolidAt(chunk, p)
        /\ voxel_mesh.faces = SixFaces
        /\ voxel_mesh.positions = SixTimes(p)
        /\ mesh = Some(SixQuadMesh(p))

\* The place of a cell in the iteration of its chunk: x fastest, then z, then y
CellRank(p) == (p.y * L * L) + (p.z * L) + p.x

\* The place of a face in the enumeration
FaceRank(f) == CHOOSE i \in 1..Len(SixFaces) : SixFaces[i] = f

C3_Post(vm, c) ==
    /\ Len(vm.faces) = Len(vm.positions)
    /\ \A i \in 1..Len(vm.faces) :
          /\ InBounds(vm.positions[i])
          /\ Visible(c, vm.faces[i], vm.positions[i])
    /\ \A i, j \in 1..Len(vm.faces) :
          i < j =>
            \/ CellRank(vm.positions[i]) < CellRank(vm.positions[j])
            \/ /\ vm.positions[i] = vm.positions[j]
               /\ FaceRank(vm.faces[i]) < FaceRank(vm.faces[j])

\* C3 (aligned lists). After serialize_chunk the face list and the position
\* list have the same length, entry i of the positions is the cell whose face
\* entry i of the faces is, the cells come in iteration order, and the faces
\* of one cell come in the order Front, Back, Up, Down, Left, Right.
C3_AlignedLists == [][SerializeChunk => C3_Post(voxel_mesh', chunk')]_vars

\* C3 witness: the chunk has been serialized into faces of at least two
\* cells, one of them with some of its faces hidden.
C3_Witness ==
    /\ MeshedNow
    /\ \E i, j \in 1..Len(voxel_mesh.positions) :
          voxel_mesh.positions[i] # voxel_mesh.positions[j]
    /\ \E p \in Cells(L, H) :
          /\ \E f \in Face : Emitted(voxel_mesh, f, p)
          /\ \E f \in Face : ~Emitted(voxel_mesh, f, p)

(***************************************************************************)
(* Properties of MeshBuilder, checked under SpecBuilder and SpecLong       *)
(***************************************************************************)
\* The indices of one face quad
QuadIndices == <<0, 1, 2, 0, 3, 1>>

\* What the claim says of a builder in summary after its pushes: no push
\* panicked, the n-th push (n from 1) appended QuadIndices + 4(n-1), and the
\* lengths are 4n and 6n with every appended index below 4n; the mesh build
\* returns has those lengths.
TallyAsClaimed(t) ==
    /\ ~t.panicked
    /\ t.nverts = 4 * t.npushes
    /\ t.nidx = 6 * t.npushes
    /\ t.npushes >= 1 =>
          /\ t.last_indices = [i \in 1..6 |-> QuadIndices[i] + 4 * (t.npushes - 1)]
          /\ \A i \in 1..6 : t.last_indices[i] < 4 * t.npushes
    /\ IsSome(t.built) =>
          /\ Unwrap(t.built).nverts = 4 * t.npushes
          /\ Unwrap(t.built).nidx = 6 * t.npushes
          /\ Unwrap(t.built).last_indices = t.last_indices

\* C4 as claimed: for any number N of pushes of face quads into a new
\* MeshBuilder, build returns 4N vertices and 6N indices, every index is
\* below 4N, and the k-th face (k from 0) gives the indices [0,1,2,0,3,1] + 4k.
C4_AnyNumberOfPushes == TallyAsClaimed(tally)

\* The most quads whose pushes keep curr_idx within a u16: 16383
MaxQuadsU16 == ((U16Max + 1) \div 4) - 1

\* C4 as amended: the same for any number N <= 16383 of pushes.
C4_PushesWithinU16 == (tally.npushes <= MaxQuadsU16) => TallyAsClaimed(tally)

\* C4 witness: 16383 quads have been pushed and the mesh built, with 65532
\* vertices.
C4_Witness ==
    /\ tally.npushes = MaxQuadsU16
    /\ IsSome(tally.built)
    /\ Unwrap(tally.built).nverts = 65532
    /\ Unwrap(tally.built).last_indices[5] = 65531

\* C5 (translation). A push of a face quad at BlockPos(x, y, z) appends four
\* vertices, in the quad's order: each has the quad vertex's position with
\* (x, y, z) added and the quad vertex's colour; the vertices already in the
\* builder stay as they were.
C5_PushTranslates ==
    [][(npushed' = npushed + 1) =>
          LET arg == pushes'[npushed']
              quad == FaceMesh(arg.face).vertices
              old == Len(builder.vertices)
          IN  /\ Len(builder'.vertices) = old + 4
              /\ \A i \in 1..old : builder'.vertices[i] = builder.vertices[i]
              /\ \A j \in 1..4 :
                    /\ builder'.vertices[old + j].position =
                          <<quad[j].position[1] + 2 * arg.position.x,
                            quad[j].position[2] + 2 * arg.position.y,
                            quad[j].position[3] + 2 * arg.position.z>>
                    /\ builder'.vertices[old + j].color = quad[j].color]_vars

\* C5 witness: a quad has been pushed at (3,1,2) into a builder that already
\* held the vertices of a quad pushed elsewhere.
C5_Witness ==
    /\ npushed = 2
    /\ pushes[2].position = BlockPosNew(3, 1, 2)
    /\ pushes[1].position = BlockPosNew(1, 0, 0)
    /\ Len(builder.vertices) = 8

\* The chunk the test populates, and the same chunk with (0,0,0) emptied
ChunkA == PlaceAll(ChunkNew(2, 2), TestBlocks, 1)
ChunkB == place_block(ChunkA, BlockPosNew(0, 0, 0), Air).chunk

\* C13 (no stale faces). serialize_chunk leaves the lists a new VoxelMesh
\* would get from the chunk's current content, whatever the lists held
\* before, so that serializing an unchanged chunk again leaves them as they
\* are; mesh() leaves the lists alone and its result is fixed by them.
C13_ContentOnly ==
    [][/\ SerializeChunk
          => /\ voxel_mesh' = serialize_chunk(VoxelMeshNew, chunk, L, H)
             /\ MeshedNow => voxel_mesh' = voxel_mesh
       /\ MeshCall
          => /\ voxel_mesh' = voxel_mesh
             /\ \A wrap \in BOOLEAN : mesh' = VoxelMeshMesh(voxel_mesh, wrap)]_vars

\* C13 witness: the populated chunk was serialized and meshed, then (0,0,0)
\* was emptied and the chunk serialized again: the lists are those of the
\* new content, and differ from the ones the mesh still held was built from.
C13_Witness ==
    /\ L = 2
    /\ H = 2
    /\ chunk = ChunkB
    /\ mesh = VoxelMeshMesh(serialize_chunk(VoxelMeshNew, ChunkA, 2, 2), FALSE)
    /\ voxel_mesh = serialize_chunk(VoxelMeshNew, ChunkB, 2, 2)
    /\ voxel_mesh # serialize_chunk(VoxelMeshNew, ChunkA, 2, 2)
    /\ Len(voxel_mesh.faces) = 24

(***************************************************************************)
(* Properties of World, ChunksRenderer and MasterRenderer, checked under   *)
(* SpecRenderer                                                            *)
(***************************************************************************)
\* A MasterRenderer::prepare call has just ended: Prepare counts its calls.
PrepareCalled == npasses' = npasses + 1

\* load_chunk and then update_chunk for each scheduled chunk in the order of
\* the list, then update_chunk for each dirty chunk in the order of the list
ExpectedCalls(w) ==
    [i \in 1..(2 * Len(w.scheduled_chunks)) |->
        IF i % 2 = 1
        THEN Call("load_chunk", w.scheduled_chunks[(i + 1) \div 2].pos)
        ELSE Call("update_chunk", w.scheduled_chunks[i \div 2].pos)]
    \o [i \in 1..Len(w.to_update_chunks) |-> Call("update_chunk", w.to_update_chunks[i].pos)]

IsPrefix(a, b) == Len(a) <= Len(b) /\ a = SubSeq(b, 1, Len(a))

\* The model a ChunkRenderer holds once it has meshed the chunk c
ModelOf(c) == VoxelMeshMesh(serialize_chunk(VoxelMeshNew, c, L, H), FALSE)

NothingPending(w) == w.scheduled_chunks = <<>> /\ w.to_update_chunks = <<>>

\* C15 (once per scheduling). A prepare pass leaves the scheduled and the
\* dirty group empty, and a pass that starts with both empty makes no
\* load_chunk and no update_chunk call and leaves the registry and the world
\* as they are.
C15_OncePerScheduling ==
    [][PrepareCalled
          => /\ NothingPending(world')
             /\ NothingPending(world)
                   => /\ calls' = <<>>
                      /\ renderers' = renderers
                      /\ world' = world
                      /\ IsNone(panic')]_vars

\* C15 witness: a second pass has returned without a call, the entries the
\* first pass made still in the registry.
C15_Witness ==
    /\ npasses = 2
    /\ IsNone(panic)
    /\ calls = <<>>
    /\ Len(world.chunks) = Len(WorldPositions)
    /\ \A i \in 1..Len(world.chunks) :
          /\ world.chunks[i].pos \in DOMAIN renderers
          /\ renderers[world.chunks[i].pos].model = ModelOf(world.chunks[i])

\* The entry of the caller's chunk holds a model: the chunk is Loaded, or
\* Dirty when its content has changed since
CallerBuilt(rs) == CallerPos \in DOMAIN rs /\ IsSome(rs[CallerPos].model)

\* C16 (mutation makes dirty). After a place_block mutation of a chunk whose
\* entry holds a model, the next prepare pass meshes the chunk again: when a
\* pass has returned, the model of the entry is the one of the chunk's
\* current content.
C16_RemeshAfterMutation ==
    [][(PrepareCalled /\ IsNone(panic') /\ CallerBuilt(renderers'))
          => renderers'[CallerPos].model = ModelOf(chunk')]_vars

\* A call on the ChunksRenderer has just ended or panicked: the actions that
\* make one count their calls.
Called(op) == ncalls' = ncalls + 1 /\ rret'.op = op

\* C17 (duplicate load). load_chunk for a position that has an entry, with a
\* device that gives the new renderer, returns the error "already loaded" and
\* leaves the registry as it is.
C17_DuplicateLoad ==
    [][(/\ Called("load_chunk")
        /\ Unwrap(rret'.pos) \in DOMAIN renderers
        /\ rret'.res # Some(Err(PipelineErr)))
          => /\ rret'.res = Some(Err("already loaded"))
             /\ renderers' = renderers]_vars

\* C18 (unload of an absent position). unload_chunk for a position that has
\* no entry leaves the registry as it is and hands a failure to its caller.
C18_UnloadAbsent ==
    [][(Called("unload_chunk") /\ Unwrap(rret'.pos) \notin DOMAIN renderers)
          => /\ renderers' = renderers
             /\ IsSome(rret'.res)
             /\ ~Unwrap(rret'.res).ok]_vars

\* C19 (unload). Whatever the entry of pos holds, unload_chunk(pos) leaves
\* the registry with no entry for pos and with every other entry as it was,
\* and render issues a draw call only for positions the registry holds, so
\* none for pos.
C19_UnloadRemoves ==
    [][/\ Called("unload_chunk")
          => LET pos == Unwrap(rret'.pos)
             IN  /\ pos \notin DOMAIN renderers'
                 /\ DOMAIN renderers' = DOMAIN renderers \ {pos}
                 /\ \A q \in DOMAIN renderers' : renderers'[q] = renderers[q]
                 /\ pos \notin render(renderers')
       /\ Render => draws' \subseteq DOMAIN renderers]_vars

\* C19 witness: the entry that a prepare pass gave the World's chunk at
\* (0,-1), model included, has been unloaded, and a render since has drawn
\* the other chunks of the World and not this one.
C19_Witness ==
    /\ npasses = 1
    /\ IsNone(panic)
    /\ rret.op = "render"
    /\ ChunkPosNew(0, -1) \notin DOMAIN renderers
    /\ \E i \in 1..Len(world.chunks) : world.chunks[i].pos = ChunkPosNew(0, -1)
    /\ draws = {world.chunks[i].pos : i \in 1..Len(world.chunks)} \ {ChunkPosNew(0, -1)}
    /\ draws # {}

\* C20 (missing entry). update_chunk and prepare_chunk for a chunk whose
\* position has no entry return a "not found" failure to the caller, leave
\* the registry as it is and do not end the program.
C20_NotFoundReported ==
    [][((Called("update_chunk") \/ Called("prepare_chunk")) /\ CallerPos \notin DOMAIN renderers)
          => /\ IsNone(panic')
             /\ renderers' = renderers
             /\ rret'.res = Some(Err(NotFound))]_vars

AllChunks(w) == w.chunks \o w.scheduled_chunks \o w.to_update_chunks

\* C23 (groups partition the chunks). Once the World exists, its three groups
\* together hold each chunk World::new created exactly once, as it was
\* created: a chunk is in one group only, none is duplicated or lost, and
\* the number of chunks stays what it was; scheduled_chunks and
\* to_update_chunks leave their group empty and put its chunks at the end of
\* the active group.
C23_GroupsPartition ==
    /\ world # NoWorld
          => /\ Len(AllChunks(world)) = Len(WorldPositions)
             /\ \A i \in 1..Len(WorldPositions) :
                   Cardinality({j \in 1..Len(AllChunks(world)) :
                                   AllChunks(world)[j].pos = WorldPositions[i]}) = 1
             /\ \A j \in 1..Len(AllChunks(world)) :
                   \E i \in 1..Len(WorldPositions) :
                      AllChunks(world)[j] = WorldNew(L, H).scheduled_chunks[i]
    /\ npasses > 0 /\ IsNone(panic) => world.scheduled_chunks = <<>> /\ world.to_update_chunks = <<>>

\* C23 witness: a prepare pass has moved every chunk of the new World from
\* the scheduled group to the active group.
C23_Witness ==
    /\ npasses >= 1
    /\ world.scheduled_chunks = <<>>
    /\ world.to_update_chunks = <<>>
    /\ world.chunks = WorldNew(L, H).scheduled_chunks
    /\ Len(world.chunks) = 4 * RD * RD

\* The calls of one kind in a call list
CallsOf(cs, op) == {cs[i].pos : i \in {j \in 1..Len(cs) : cs[j].op = op}}

\* C24 (load failure in a prepare pass). When load_chunk fails for a chunk
\* during a prepare pass, the pass returns and the program goes on: the chunk
\* has no entry and every other scheduled chunk has been loaded and meshed.
C24_LoadFailureTolerated ==
    [][PrepareCalled
          => /\ panic' # Some(UnwrapErr)
             /\ CallsOf(calls', "load_chunk") = Positions(world.scheduled_chunks)
             /\ \A p \in Positions(world.scheduled_chunks) :
                   p \in CallsOf(calls', "update_chunk") <=> p \in DOMAIN renderers']_vars

\* C25 (load failure is returned). A load_chunk call either returns the
\* error of the failed creation of the chunk renderer and leaves the registry
\* exactly as it was, an entry the position already had included, or returns
\* Ok and has put a new renderer at the position: the registry never gets an
\* entry from a call that failed.
C25_LoadErrorReturned ==
    [][Called("load_chunk")
          => LET pos == Unwrap(rret'.pos)
                 res == Unwrap(rret'.res)
             IN  /\ IsNone(panic')
                 /\ ~res.ok => res = Err(PipelineErr) /\ renderers' = renderers
                 /\ res.ok => /\ pos \in DOMAIN renderers'
                              /\ IsNone(renderers'[pos].model)
                              /\ \A q \in DOMAIN renderers \ {pos} :
                                    q \in DOMAIN renderers' /\ renderers'[q] = renderers[q]]_vars

\* C25 witness: load_chunk has failed for (1,0), which has no entry, and for
\* (0,-1), which keeps the entry and the model a prepare pass gave it.
C25_Witness ==
    /\ rret.op = "load_chunk"
    /\ rret.res = Some(Err(PipelineErr))
    /\ ncalls = 2
    /\ IsNone(panic)
    /\ CallerPos \notin DOMAIN renderers
    /\ ChunkPosNew(0, -1) \in DOMAIN renderers
    /\ IsSome(renderers[ChunkPosNew(0, -1)].model)

\* No buffer is held by two entries of the registry, and an entry holds its
\* three pipeline buffers and, once it has a model, the two buffers of the
\* model, each of them a different buffer
NoSharedBuffer(rs) ==
    /\ \A p, q \in DOMAIN rs : p # q => BuffersOf(rs[p]) \cap BuffersOf(rs[q]) = {}
    /\ \A p \in DOMAIN rs :
          /\ IsSome(rs[p].render_info) <=> IsSome(rs[p].model)
          /\ Cardinality(BuffersOf(rs[p])) = IF IsSome(rs[p].model) THEN 5 ELSE 3

\* C26 (exclusive ownership). The registry maps a ChunkPos to one renderer,
\* so a position has at most one entry, a load_chunk for a position that has
\* one included; in every state each vertex, index, uniform and face storage
\* buffer is held by exactly one entry; and update_chunk and prepare_chunk
\* for a chunk change the entry of its position and no other.
C26_ExclusiveBuffers ==
    /\ []NoSharedBuffer(renderers)
    /\ [][/\ Called("load_chunk")
               => DOMAIN renderers' \subseteq DOMAIN renderers \cup {Unwrap(rret'.pos)}
          /\ (Called("update_chunk") \/ Called("prepare_chunk"))
               => /\ DOMAIN renderers' = DOMAIN renderers
                  /\ \A q \in DOMAIN renderers \ {CallerPos} : renderers'[q] = renderers[q]]_vars

\* C26 witness: the entries of the chunks of the World and the entry of the
\* caller's chunk, loaded and meshed after them, all hold a model, five
\* buffers each, those of the caller's chunk created last.
C26_Witness ==
    /\ rret.op = "update_chunk"
    /\ IsNone(panic)
    /\ npasses = 1
    /\ DOMAIN renderers = Positions(world.chunks) \cup {CallerPos}
    /\ \A p \in DOMAIN renderers : IsSome(renderers[p].model)
    /\ Cardinality(Live(renderers)) = 5 * (Len(WorldPositions) + 1)
    /\ Unwrap(renderers[CallerPos].render_info).vertex_buffer > 5 * Len(WorldPositions)

\* The chunks of a list have pairwise distinct positions
DistinctPositions(items) ==
    \A i, j \in 1..Len(items) : items[i].pos = items[j].pos => i = j

\* C28 (active chunks are built). With the registry reached through
\* MasterRenderer only (prepare passes, update_uniforms, render; no
\* unload_chunk) and a World of chunks with pairwise distinct positions, after
\* every number of prepare passes each chunk of World::chunks has an entry in
\* the registry and the entry has its model built, and update_uniforms over
\* World::chunks does not reach the panic "ChunkRenderer not found".
C28_ActiveChunksBuilt ==
    /\ []((/\ IsNone(panic)
           /\ ncalls = 0
           /\ world # NoWorld
           /\ DistinctPositions(AllChunks(world)))
              => \A i \in 1..Len(world.chunks) :
                    /\ world.chunks[i].pos \in DOMAIN renderers
                    /\ IsSome(renderers[world.chunks[i].pos].model))
    /\ [][(UpdateUniforms /\ ncalls = 0 /\ DistinctPositions(AllChunks(world)))
              => panic' # Some(NotFound)]_vars

\* C28 witness: two prepare passes have run, the chunks of the World are all
\* in World::chunks, and update_uniforms has written the uniforms of each.
C28_Witness ==
    /\ IsNone(panic)
    /\ ncalls = 0
    /\ npasses = 2
    /\ world # NoWorld
    /\ Len(world.chunks) = Len(WorldPositions)
    /\ \A i \in 1..Len(world.chunks) :
          /\ world.chunks[i].pos \in DOMAIN renderers
          /\ IsSome(renderers[world.chunks[i].pos].uniforms)

\* The number of u32 the face storage buffer of a pipeline is created with:
\* [u32; 16 * 16 * 16] for the Chunk<16, 16> of the program, one per block of
\* a Chunk<l, h>
FacesCapacity(l, h) == l * l * h

\* C29 (face list fits the storage buffer). The face list update_uniforms
\* uploads into the face storage buffer of the entry of a Chunk<L, H> has at
\* most L * L * H entries, the capacity the buffer is created with.
C29_FacesFitStorage ==
    \A p \in DOMAIN renderers :
       IsSome(renderers[p].uniforms)
          => Len(Unwrap(renderers[p].uniforms).faces) <= FacesCapacity(L, H)

(***************************************************************************)
(* Properties of the frame loop, checked under SpecFrame                   *)
(***************************************************************************)
\* What update_uniforms writes to the buffers of the entry r of the chunk at
\* pos when the Camera is camera
UniformsOf(r, camera, pos) ==
    Some([camera |-> camera, translation |-> pos, faces |-> r.voxel_mesh.faces])

C30_NoOverflowWithinU16 ==
    (tally.npushes <= MaxQuadsU16) =>
        /\ ~tally.panicked
        /\ tally.curr_idx = 4 * tally.npushes
        /\ tally.curr_idx <= U16Max
        /\ tally.npushes >= 1 =>
              \A i \in 1..6 :
                 /\ tally.last_indices[i] = 4 * (tally.npushes - 1) + QuadIndices[i]
                 /\ tally.last_indices[i] <= U16Max

\* C30 witness: the 16383rd push has left curr_idx at 65532 and stored the
\* index 65531, and the mesh is not built yet.
C30_Witness ==
    /\ tally.npushes = MaxQuadsU16
    /\ IsNone(tally.built)
    /\ tally.curr_idx = 65532
    /\ tally.last_indices = <<65528, 65529, 65530, 65528, 65531, 65529>>

(***************************************************************************)
(* Properties of tests::it_works, checked under SpecBuilder                *)
(***************************************************************************)
\* The positions, in halves, that tests::it_works expects of the four
\* vertices of the third quad: (0.5,-0.5,0.5), (-0.5,0.5,0.5),
\* (-0.5,-0.5,0.5), (0.5,0.5,0.5)
ItWorksThirdQuad == <<<<1, -1, 1>>, <<-1, 1, 1>>, <<-1, -1, 1>>, <<1, 1, 1>>>>

\* C27 (tests::it_works). UP_FACE, DOWN_FACE and RIGHT_FACE pushed at
\* BlockPos(0,0,0) into a new MeshBuilder build a mesh with the 18 indices
\* 0,1,2,0,3,1, 4,5,6,4,7,5, 8,9,10,8,11,9 and 12 vertices in push order, the
\* four of the third quad at (0.5,-0.5,0.5), (-0.5,0.5,0.5), (-0.5,-0.5,0.5),
\* (0.5,0.5,0.5).
C27_ItWorks ==
    (IsSome(built) /\ pushes = ItWorksPushes) =>
        LET m == Unwrap(built)
        IN  /\ m.indices = <<0, 1, 2, 0, 3, 1, 4, 5, 6, 4, 7, 5, 8, 9, 10, 8, 11, 9>>
            /\ Len(m.vertices) = 12
            /\ \A j \in 1..4 : m.vertices[j] = UP_FACE.vertices[j]
            /\ \A j \in 1..4 : m.vertices[4 + j] = DOWN_FACE.vertices[j]
            /\ \A j \in 1..4 : m.vertices[8 + j].position = ItWorksThirdQuad[j]

====
